---- MODULE Spec2Model ----
(***************************************************************************)
(* The ugly JSON stream server: ugly_json_server.py (limit and seed        *)
(* configurable) and its predecessor json_generator.py (infinite stream,   *)
(* seed fixed at 0).  A connection's do_GET pulls byte chunks from the     *)
(* generator generate_chunks and writes each one as an HTTP/1.1 chunked    *)
(* transfer frame.  Strings are sequences of Unicode code points, texts    *)
(* and buffers are sequences of bytes (0..255).                            *)
(***************************************************************************)
EXTENDS Integers, Sequences, FiniteSets, TLC

VARIABLES
    variant,      \* which file runs: "ugly" (ugly_json_server.py) or "jsongen"
    LIMIT,        \* module global LIMIT (None or an int)
    SEED,         \* module global SEED (None or an int)
    rng,          \* state of the process-wide generator of module random
    pc,           \* per connection: position of do_GET
    started,      \* per connection: the generator body has begun to run
    buf,          \* per connection: generate_chunks' local buf
    count,        \* per connection: generate_chunks' local count
    under_limit,  \* per connection: generate_chunks' local under_limit
    chunk,        \* per connection: the chunk do_GET's for loop holds
    body,         \* per connection: bytes written to wfile after the headers
    sent,         \* history: the chunks the generator has yielded, in order
    sizes,        \* history: the chunk_size drawn in the cycle of each yielded chunk
    texts,        \* history: the serialized texts appended to buf, in order
    broken,       \* per connection: a write to wfile has raised
    gdepth,       \* value generator run on its own: depth of the outermost call
    gtape,        \* value generator run on its own: the draws forced so far
    gfar          \* value generator run on its own: None, or how many levels
                  \* below the outermost call the run made a call

vars == << variant, LIMIT, SEED, rng, pc, started, buf, count, under_limit,
           chunk, body, sent, sizes, texts, broken, gdepth, gtape, gfar >>

\* Python's None: an integer that no --limit, --seed or indent value takes
None == -999

-----------------------------------------------------------------------------
(* Bounds of the model *)

NumConn == 2        \* connections the server is followed through
NumSeeds == 6       \* --seed values 0 .. NumSeeds-1, and as many entropy seeds
MaxLimit == 3       \* --limit values -1 .. MaxLimit
MaxCount == 3       \* values generated per connection when there is no limit
MaxSteps == 4096    \* steps one run of the value generator is followed for
MaxDraws == 5       \* forced draws when the value generator is run on its own
TapeLevels == 5     \* distinct values a forced draw takes in [0, 1)
MaxGenDepth == 10   \* largest depth the value generator is started at on its own

Conns == 1 .. NumConn

-----------------------------------------------------------------------------
(* Module random: one process-wide generator.  Every library call consumes *)
(* one uniform draw u / RngResolution in [0, 1) and scales it, as          *)
(* int(random() * n) does.  The generator is a linear congruential one;    *)
(* forced draws, when there are any, are consumed before it.               *)

LcgModulus == 65536
LcgMultiplier == 25173
LcgIncrement == 13849
RngResolution == 1024

seed(s) == [x |-> s % LcgModulus, forced |-> << >>]

Uniform(g) ==
    IF g.forced # << >>
    THEN [u |-> Head(g.forced), g |-> [g EXCEPT !.forced = Tail(g.forced)]]
    ELSE LET nx == (LcgMultiplier * g.x + LcgIncrement) % LcgModulus
         IN  [u |-> nx \div (LcgModulus \div RngResolution),
              g |-> [g EXCEPT !.x = nx]]

\* random.random() < num / den
random_lt(g, num, den) ==
    LET d == Uniform(g) IN [v |-> d.u * den < num * RngResolution, g |-> d.g]

\* random.randrange(a, b): an integer of a .. b-1
randrange(g, a, b) ==
    LET d == Uniform(g) IN [v |-> a + (d.u * (b - a)) \div RngResolution, g |-> d.g]

\* random.randint(a, b): an integer of a .. b
randint(g, a, b) == randrange(g, a, b + 1)

\* random.choice(seq)
choice(g, seq) ==
    LET d == randrange(g, 0, Len(seq)) IN [v |-> seq[d.v + 1], g |-> d.g]

-----------------------------------------------------------------------------
(* Values: [t |-> tag, a |-> payload].  "str": code points; "int": the     *)
(* integer; "float": the text of repr(); "true", "false", "null": 0;       *)
(* "list": sequence of values; "dict": sequence of <<key, value>> pairs    *)
(* in insertion order, keys unique.                                        *)

ScalarCatalogUgly ==
    << [t |-> "str", a |-> <<121, 101, 115>>],
       [t |-> "str", a |-> <<110, 111>>],
       [t |-> "str", a |-> <<109, 97, 121, 98, 101>>],
       [t |-> "str", a |-> <<58, 41>>],
       [t |-> "str", a |-> <<>>],
       [t |-> "str", a |-> <<127093, 127114, 127111>>],
       [t |-> "str", a |-> <<91, 123, 34, 84, 104, 105, 115, 32, 108, 111, 111, 107, 115, 32, 108, 105, 107, 101, 32, 74, 83, 79, 78, 34, 58, 32, 34, 98, 117, 116, 32, 105, 116, 39, 115, 32, 97, 99, 116, 117, 97, 108, 108, 121, 32, 97, 32, 115, 116, 114, 105, 110, 103, 34, 125, 93>>],
       [t |-> "str", a |-> <<39>>],
       [t |-> "str", a |-> <<34>>],
       [t |-> "str", a |-> <<104, 101, 108, 108, 111, 44, 32, 119, 111, 114, 108, 100>>],
       [t |-> "str", a |-> <<123>>],
       [t |-> "str", a |-> <<125>>],
       [t |-> "str", a |-> <<91>>],
       [t |-> "str", a |-> <<93>>],
       [t |-> "str", a |-> <<98, 97, 99, 107, 92, 115, 108, 97, 115, 104>>],
       [t |-> "str", a |-> <<92, 34, 92, 92>>],
       [t |-> "str", a |-> <<0>>],
       [t |-> "str", a |-> <<28450, 23383>>],
       [t |-> "int", a |-> -1],
       [t |-> "int", a |-> 0],
       [t |-> "int", a |-> 1],
       [t |-> "int", a |-> 2],
       [t |-> "int", a |-> 3],
       [t |-> "int", a |-> 5],
       [t |-> "int", a |-> 8],
       [t |-> "float", a |-> <<48, 46, 48>>],
       [t |-> "int", a |-> 10000],
       [t |-> "float", a |-> <<54, 46, 50, 56, 51, 49, 56, 53>>],
       [t |-> "float", a |-> <<54, 46, 48, 50, 101, 43, 50, 51>>],
       [t |-> "float", a |-> <<49, 101, 45, 51, 48>>],
       [t |-> "true", a |-> 0],
       [t |-> "false", a |-> 0],
       [t |-> "null", a |-> 0] >>

ScalarCatalogJsonGen ==
    << [t |-> "str", a |-> <<121, 101, 115>>],
       [t |-> "str", a |-> <<110, 111>>],
       [t |-> "str", a |-> <<109, 97, 121, 98, 101>>],
       [t |-> "str", a |-> <<58, 41>>],
       [t |-> "str", a |-> <<>>],
       [t |-> "float", a |-> <<78, 97, 78>>],
       [t |-> "float", a |-> <<73, 110, 102, 105, 110, 105, 116, 121>>],
       [t |-> "float", a |-> <<45, 73, 110, 102, 105, 110, 105, 116, 121>>],
       [t |-> "str", a |-> <<127093, 127114, 127111>>],
       [t |-> "str", a |-> <<91, 123, 34, 84, 104, 105, 115, 32, 108, 111, 111, 107, 115, 32, 108, 105, 107, 101, 32, 74, 83, 79, 78, 34, 58, 32, 34, 98, 117, 116, 32, 105, 116, 39, 115, 32, 97, 99, 116, 117, 97, 108, 108, 121, 32, 97, 32, 115, 116, 114, 105, 110, 103, 34, 125, 93>>],
       [t |-> "str", a |-> <<39>>],
       [t |-> "str", a |-> <<34>>],
       [t |-> "str", a |-> <<104, 101, 108, 108, 111, 44, 32, 119, 111, 114, 108, 100>>],
       [t |-> "str", a |-> <<123>>],
       [t |-> "str", a |-> <<125>>],
       [t |-> "str", a |-> <<91>>],
       [t |-> "str", a |-> <<93>>],
       [t |-> "str", a |-> <<98, 97, 99, 107, 92, 115, 108, 97, 115, 104>>],
       [t |-> "str", a |-> <<92, 34, 92, 92>>],
       [t |-> "str", a |-> <<0>>],
       [t |-> "str", a |-> <<28450, 23383>>],
       [t |-> "int", a |-> -1],
       [t |-> "int", a |-> 0],
       [t |-> "int", a |-> 1],
       [t |-> "int", a |-> 2],
       [t |-> "int", a |-> 3],
       [t |-> "int", a |-> 5],
       [t |-> "int", a |-> 8],
       [t |-> "float", a |-> <<48, 46, 48>>],
       [t |-> "int", a |-> 10000],
       [t |-> "float", a |-> <<51, 46, 49, 52, 49, 53, 57>>],
       [t |-> "float", a |-> <<54, 46, 48, 50, 101, 43, 50, 51>>],
       [t |-> "float", a |-> <<49, 101, 45, 51, 48>>],
       [t |-> "true", a |-> 0],
       [t |-> "false", a |-> 0],
       [t |-> "null", a |-> 0] >>

StringCatalogUgly ==
    << <<>>, <<97>>, <<117, 109>>, <<102, 111, 111>>, <<113, 117, 97, 99, 107>>,
       <<44>>, <<58>>, <<34>>, <<125, 123>> >>

StringCatalogJsonGen ==
    << <<>>, <<97>>, <<117, 109>>, <<102, 111, 111>>, <<113, 117, 97, 99, 107>>,
       <<44>>, <<58>>, <<34>> >>

\* The (item_separator, key_separator) pairs of make_random_json
SeparatorCatalog ==
    << <<<<44, 32>>, <<58, 32>>>>,
       <<<<44, 32>>, <<58, 32>>>>,
       <<<<44, 32>>, <<58, 32>>>>,
       <<<<44>>, <<58, 32>>>>,
       <<<<44, 32>>, <<58>>>>,
       <<<<44>>, <<58>>>>,
       <<<<32, 44, 32>>, <<32, 58, 32>>>>,
       <<<<32, 32, 44>>, <<58, 32, 32>>>> >>

\* The indent choices of make_random_json; None is no indentation
IndentCatalog == << None, None, None, None, None, None, 1, 2 >>

EnsureAsciiCatalog == << TRUE, FALSE >>

ChunkSizeCatalog == << 1, 2, 4, 1024 >>

-----------------------------------------------------------------------------
(* Small helpers *)

Max(a, b) == IF a >= b THEN a ELSE b

Min(a, b) == IF a <= b THEN a ELSE b

RECURSIVE JoinRange(_, _, _, _)
\* parts[lo] sep parts[lo+1] sep ... parts[hi], split in halves
JoinRange(parts, sep, lo, hi) ==
    IF lo > hi THEN << >>
    ELSE IF lo = hi THEN parts[lo]
    ELSE LET mid == (lo + hi) \div 2
         IN  JoinRange(parts, sep, lo, mid) \o sep \o JoinRange(parts, sep, mid + 1, hi)

\* sep.join(parts)
Join(parts, sep) == JoinRange(parts, sep, 1, Len(parts))

\* The concatenation of a sequence of sequences
Flatten(ss) == Join(ss, << >>)

\* s[:n] and s[n:] of Python, for n >= 0
Take(s, n) == SubSeq(s, 1, Min(n, Len(s)))

Drop(s, n) == SubSeq(s, Min(n, Len(s)) + 1, Len(s))

-----------------------------------------------------------------------------
(* The value generator.  A value is held as the sequence of its tokens in  *)
(* the order json writes them: a scalar is one token [t, a] as in the      *)
(* catalogs; a list or dict is "empty", or "open", then per entry "sep"    *)
(* (and "key" in a dict) and the entry's tokens, then "close".             *)
(*                                                                         *)
(* The recursion of make_random_value / make_random_list /                 *)
(* make_random_dict is run on an explicit call stack: m is [g, stack, out, *)
(* done, far], a frame is one running comprehension [kind, depth, lvl, i,  *)
(* length, key, entries].  lvl counts the enclosing make_random_value      *)
(* calls made at depth >= 9; far is the largest lvl any make_random_value  *)
(* call of the run was made at.                                            *)

random_char(g) ==
    LET low == IF variant = "ugly"
               THEN random_lt(g, 9, 10)
               ELSE LET d == randint(g, 0, 9) IN [v |-> d.v # 0, g |-> d.g]
    IN  IF low.v THEN randrange(low.g, 0, 55296)
                 ELSE randrange(low.g, 57344, 1114112)

RECURSIVE random_chars(_, _, _)
random_chars(g, n, acc) ==
    IF n = 0 THEN [v |-> acc, g |-> g]
    ELSE LET c == random_char(g) IN random_chars(c.g, n - 1, Append(acc, c.v))

make_random_characters(g) ==
    LET n == randint(g, 1, 4) IN random_chars(n.g, n.v, << >>)

make_random_scalar(g) ==
    LET p == random_lt(g, 1, 5)
    IN  IF p.v
        THEN LET s == make_random_characters(p.g)
             IN  [v |-> [t |-> "str", a |-> s.v], g |-> s.g]
        ELSE choice(p.g, IF variant = "ugly" THEN ScalarCatalogUgly
                                              ELSE ScalarCatalogJsonGen)

make_random_string(g) ==
    LET p == random_lt(g, 1, 5)
    IN  IF p.v
        THEN make_random_characters(p.g)
        ELSE choice(p.g, IF variant = "ugly" THEN StringCatalogUgly
                                              ELSE StringCatalogJsonGen)

\* The depth entry i of a list or dict generated at `depth` is generated at
entry_depth(depth, i) == IF variant = "ugly" THEN depth + i + 1 ELSE depth + i

\* max(10 - depth, 1)
maxlength(depth) == Max(10 - depth, 1)

\* d[k] = v on a dict held as << key, value >> pairs: a key already present
\* keeps its place and takes the new value
dict_put(d, k, v) ==
    IF \E j \in 1 .. Len(d) : d[j][1] = k
    THEN LET j == CHOOSE j \in 1 .. Len(d) : d[j][1] = k
         IN  SubSeq(d, 1, j - 1) \o << << k, v >> >> \o SubSeq(d, j + 1, Len(d))
    ELSE Append(d, << k, v >>)

\* The tokens of the finished list or dict of frame f, nested `level` deep
container_tokens(f, level) ==
    IF f.entries = << >> THEN << [t |-> "empty", a |-> f.kind] >>
    ELSE << [t |-> "open", a |-> f.kind] >>
         \o Flatten([j \in 1 .. Len(f.entries) |->
                << [t |-> "sep", a |-> [first |-> j = 1, level |-> level + 1]] >>
                \o (IF f.kind = "dict"
                    THEN << [t |-> "key", a |-> f.entries[j][1]] >>
                    ELSE << >>)
                \o f.entries[j][2]])
         \o << [t |-> "close", a |-> [kind |-> f.kind, level |-> level]] >>

\* A call returns value v (its tokens): to the comprehension that made the
\* call, or as the result of the run
return_value(m, v) ==
    IF m.stack = << >> THEN [m EXCEPT !.done = TRUE, !.out = v]
    ELSE LET n == Len(m.stack)
             f == m.stack[n]
         IN  [m EXCEPT !.stack[n] =
                [f EXCEPT !.i = f.i + 1,
                          !.entries = IF f.kind = "dict"
                                      THEN dict_put(f.entries, f.key, v)
                                      ELSE Append(f.entries, << << >>, v >>)]]

\* make_random_dict(depth): draws the length and starts the comprehension
make_random_dict(m, depth, lvl) ==
    LET length == randint(m.g, 0, maxlength(depth))
    IN  [m EXCEPT !.g = length.g,
                  !.stack = Append(m.stack,
                      [kind |-> "dict", depth |-> depth, lvl |-> lvl, i |-> 0,
                       length |-> length.v, key |-> << >>, entries |-> << >>])]

\* make_random_list(depth): draws the length and starts the comprehension
make_random_list(m, depth, lvl) ==
    LET length == randint(m.g, 0, maxlength(depth))
    IN  [m EXCEPT !.g = length.g,
                  !.stack = Append(m.stack,
                      [kind |-> "list", depth |-> depth, lvl |-> lvl, i |-> 0,
                       length |-> length.v, key |-> << >>, entries |-> << >>])]

\* return make_random_scalar(): r is the scalar and the generator state
\* after its draws
return_scalar(m, r) == return_value([m EXCEPT !.g = r.g], << r.v >>)

\* The rest of make_random_value once c = random.randint(0, 4) is drawn
value_of_choice(m, c, depth, lvl) ==
    IF c = 1 THEN make_random_list(m, depth, IF depth >= 9 THEN lvl + 1 ELSE 0)
    ELSE IF c = 2 THEN make_random_dict(m, depth, IF depth >= 9 THEN lvl + 1 ELSE 0)
    ELSE return_scalar(m, make_random_scalar(m.g))

\* The run m once a draw d = [v, g] has been made
drawn(m, d) == [m EXCEPT !.g = d.g]

\* make_random_value(depth), called from lvl calls at depth >= 9 deep
make_random_value(m, depth, lvl) ==
    value_of_choice(drawn([m EXCEPT !.far = Max(m.far, lvl)], randint(m.g, 0, 4)),
                    randint(m.g, 0, 4).v, depth, lvl)

\* The run m once the key k = [v, g] of a dict's next entry has been made
with_key(m, k) == [m EXCEPT !.g = k.g, !.stack[Len(m.stack)].key = k.v]

\* The running comprehension makes its next entry, or is finished and its
\* list or dict is returned
comprehension_step(m) ==
    LET n == Len(m.stack)
        f == m.stack[n]
    IN  IF f.i >= f.length
        THEN return_value([m EXCEPT !.stack = SubSeq(m.stack, 1, n - 1)],
                          container_tokens(f, n - 1))
        ELSE make_random_value(IF f.kind = "dict"
                               THEN with_key(m, make_random_string(m.g))
                               ELSE m,
                               entry_depth(f.depth, f.i), f.lvl)

RECURSIVE run_steps(_, _)
\* Up to n steps of the run, by halves
run_steps(m, n) ==
    IF m.done \/ n = 0 THEN m
    ELSE IF n = 1 THEN comprehension_step(m)
    ELSE LET h == run_steps(m, n \div 2)
         IN  IF h.done THEN h ELSE run_steps(h, n - (n \div 2))

\* A run that has made no call yet, on generator state g
fresh_run(g) == [g |-> g, stack |-> << >>, out |-> << >>, done |-> FALSE, far |-> 0]

-----------------------------------------------------------------------------
(* json.dumps(value, indent, ensure_ascii, separators), then               *)
(* .encode('utf-8')                                                        *)

HexDigitLower(d) == IF d < 10 THEN 48 + d ELSE 87 + d

HexDigitUpper(d) == IF d < 10 THEN 48 + d ELSE 55 + d

\* '\\u{0:04x}'.format(n), n < 65536
escape_u(n) ==
    << 92, 117, HexDigitLower(n \div 4096), HexDigitLower((n \div 256) % 16),
       HexDigitLower((n \div 16) % 16), HexDigitLower(n % 16) >>

\* The text json writes for one character of a string
escape_char(c, ensure_ascii) ==
    IF c = 34 THEN << 92, 34 >>
    ELSE IF c = 92 THEN << 92, 92 >>
    ELSE IF c = 10 THEN << 92, 110 >>
    ELSE IF c = 13 THEN << 92, 114 >>
    ELSE IF c = 9 THEN << 92, 116 >>
    ELSE IF c = 12 THEN << 92, 102 >>
    ELSE IF c = 8 THEN << 92, 98 >>
    ELSE IF c < 32 THEN escape_u(c)
    ELSE IF ensure_ascii /\ c > 126
    THEN IF c < 65536 THEN escape_u(c)
         ELSE LET n == c - 65536
              IN  escape_u(55296 + ((n \div 1024) % 1024)) \o escape_u(56320 + (n % 1024))
    ELSE << c >>

encode_string(s, ensure_ascii) ==
    << 34 >> \o Flatten([j \in 1 .. Len(s) |-> escape_char(s[j], ensure_ascii)]) \o << 34 >>

RECURSIVE DecimalDigits(_)
DecimalDigits(n) ==
    IF n < 10 THEN << 48 + n >> ELSE Append(DecimalDigits(n \div 10), 48 + (n % 10))

\* str(n) of an int
int_repr(n) == IF n < 0 THEN << 45 >> \o DecimalDigits(-n) ELSE DecimalDigits(n)

\* '\n' + ' ' * (indent * level); nothing when indent is None
newline_indent(indent, level) ==
    IF indent = None THEN << >> ELSE << 10 >> \o [j \in 1 .. indent * level |-> 32]

\* The text json writes for one token
token_text(tok, indent, ensure_ascii, item_separator, key_separator) ==
    IF tok.t = "str" THEN encode_string(tok.a, ensure_ascii)
    ELSE IF tok.t = "int" THEN int_repr(tok.a)
    ELSE IF tok.t = "float" THEN tok.a
    ELSE IF tok.t = "true" THEN << 116, 114, 117, 101 >>
    ELSE IF tok.t = "false" THEN << 102, 97, 108, 115, 101 >>
    ELSE IF tok.t = "null" THEN << 110, 117, 108, 108 >>
    ELSE IF tok.t = "empty" THEN (IF tok.a = "list" THEN << 91, 93 >> ELSE << 123, 125 >>)
    ELSE IF tok.t = "open" THEN (IF tok.a = "list" THEN << 91 >> ELSE << 123 >>)
    ELSE IF tok.t = "sep"
    THEN (IF tok.a.first THEN << >> ELSE item_separator)
         \o newline_indent(indent, tok.a.level)
    ELSE IF tok.t = "key" THEN encode_string(tok.a, ensure_ascii) \o key_separator
    ELSE newline_indent(indent, tok.a.level)
         \o (IF tok.a.kind = "list" THEN << 93 >> ELSE << 125 >>)

dumps(v, indent, ensure_ascii, separators) ==
    Flatten([j \in 1 .. Len(v) |->
               token_text(v[j], indent, ensure_ascii, separators[1], separators[2])])

\* The UTF-8 bytes of one code point
utf8_char(c) ==
    IF c < 128 THEN << c >>
    ELSE IF c < 2048 THEN << 192 + (c \div 64), 128 + (c % 64) >>
    ELSE IF c < 65536
    THEN << 224 + (c \div 4096), 128 + ((c \div 64) % 64), 128 + (c % 64) >>
    ELSE << 240 + (c \div 262144), 128 + ((c \div 4096) % 64),
            128 + ((c \div 64) % 64), 128 + (c % 64) >>

\* text.encode('utf-8')
utf8_encode(text) == Flatten([j \in 1 .. Len(text) |-> utf8_char(text[j])])

\* The three formatting draws of make_random_json, from generator state g
formatting(g) ==
    LET indent == choice(g, IndentCatalog)
        ensure_ascii == choice(indent.g, EnsureAsciiCatalog)
        separators == choice(ensure_ascii.g, SeparatorCatalog)
    IN  [indent |-> indent.v, ensure_ascii |-> ensure_ascii.v,
         separators |-> separators.v, g |-> separators.g]

\* return json.dumps(value, ...) with the formatting drawn, as bytes
dumped(value, fmt) ==
    [v |-> utf8_encode(dumps(value.out, fmt.indent, fmt.ensure_ascii, fmt.separators)),
     ok |-> value.done,
     g |-> fmt.g]

\* The rest of make_random_json once value = make_random_dict() has run
json_of(value) == dumped(value, formatting(value.g))

\* make_random_json().encode('utf-8'): the bytes of one random object.  ok is
\* FALSE when the run of make_random_dict() is longer than MaxSteps steps.
make_random_json(g) ==
    json_of(run_steps(make_random_dict(fresh_run(g), 0, 0), MaxSteps))

\* Faulty variant of make_random_chunk_size: sizes up to 2048
make_random_chunk_size_wide(g) ==
    LET c == randint(g, 0, 1)
    IN  IF c.v = 0 THEN choice(c.g, << 1, 2, 4, 2048 >>) ELSE randint(c.g, 1, 2048)

make_random_chunk_size(g) ==
    LET c == randint(g, 0, 1)
    IN  IF c.v = 0 THEN choice(c.g, ChunkSizeCatalog) ELSE randint(c.g, 1, 1024)

-----------------------------------------------------------------------------
(* generate_chunks(limit, seed): a generator.  A call of next() runs its   *)
(* body from where it stopped to the next yield, or to its end.            *)

\* Faulty variant of generator_start: the seed is never applied
generator_start_unseeded(g, s) == g

\* The generator state the body draws from once `if seed is not None:
\* random.seed(seed)` has run; json_generator.py always runs random.seed(0)
generator_start(g, s) == IF s # None THEN seed(s) ELSE g

\* Faulty variant of loop_condition: `while under_limit`
loop_condition_limit_only(under, b) == under

\* while under_limit or len(buf) > 0
loop_condition(under, b) == under \/ Len(b) > 0

\* under_limit = (limit is None or count < limit)
under_limit_after(limit, cnt) == limit = None \/ cnt < limit

\* buf += make_random_json().encode('utf-8'); count += 1; under_limit = ...
\* on st = [buf, count, under_limit, g, texts, capped], j the object made
append_json(st, j, limit) ==
    IF ~j.ok THEN [st EXCEPT !.capped = TRUE]
    ELSE [buf |-> st.buf \o j.v,
          count |-> st.count + 1,
          under_limit |-> under_limit_after(limit, st.count + 1),
          g |-> j.g,
          texts |-> Append(st.texts, j.v),
          capped |-> FALSE]

\* Without a limit the stream has no end: it is followed for MaxCount
\* objects per connection and no further
count_capped(st, limit) ==
    IF limit = None /\ st.count >= MaxCount THEN [st EXCEPT !.capped = TRUE] ELSE st

\* Faulty variant of top_up: `if` in place of `while`, one object at most
top_up_once(st, chunk_size, limit) ==
    IF Len(st.buf) < chunk_size /\ st.under_limit /\ ~count_capped(st, limit).capped
    THEN append_json(st, make_random_json(st.g), limit)
    ELSE IF Len(st.buf) < chunk_size /\ st.under_limit
    THEN count_capped(st, limit)
    ELSE st

RECURSIVE top_up(_, _, _)
\* while len(buf) < chunk_size and under_limit: append one more object.
\* capped is set where the loop is not followed further.
top_up(st, chunk_size, limit) ==
    IF Len(st.buf) < chunk_size /\ st.under_limit /\ ~count_capped(st, limit).capped
    THEN top_up(append_json(st, make_random_json(st.g), limit), chunk_size, limit)
    ELSE IF Len(st.buf) < chunk_size /\ st.under_limit
    THEN count_capped(st, limit)
    ELSE st

\* Faulty variant of remainder: buf = buf[chunk_size + 1:]
remainder_skips_byte(b, chunk_size) == Drop(b, chunk_size + 1)

\* to_send = buf[:chunk_size]
to_send(b, chunk_size) == Take(b, chunk_size)

\* buf = buf[chunk_size:]
remainder(b, chunk_size) == Drop(b, chunk_size)

\* The generator at `yield to_send`: t is the state the inner loop left
at_yield(t, chunk_size) ==
    [chunk_size |-> chunk_size,
     capped |-> t.capped,
     to_send |-> to_send(t.buf, chunk_size),
     buf |-> remainder(t.buf, chunk_size),
     count |-> t.count,
     under_limit |-> t.under_limit,
     texts |-> t.texts,
     g |-> t.g]

\* One pass of the outer loop from generator locals loc = [buf, count,
\* under_limit] and generator state g: the drawn size, the locals at the
\* yield, the chunk yielded, the texts appended
cycle(loc, g, limit) ==
    LET size == make_random_chunk_size(g)
    IN  at_yield(top_up([buf |-> loc.buf, count |-> loc.count,
                         under_limit |-> loc.under_limit, g |-> size.g,
                         texts |-> << >>, capped |-> FALSE],
                        size.v, limit),
                 size.v)

-----------------------------------------------------------------------------
(* ChunkingRequestHandler.do_GET *)

RECURSIVE hex_upper(_)
\* '%X' % n
hex_upper(n) ==
    IF n < 16 THEN << HexDigitUpper(n) >>
    ELSE Append(hex_upper(n \div 16), HexDigitUpper(n % 16))

CRLF == << 13, 10 >>

\* What write_chunk hands to wfile.write for a chunk
frame(c) == hex_upper(Len(c)) \o CRLF \o c \o CRLF

\* b'0\r\n\r\n'
final_chunk == << 48 >> \o CRLF \o CRLF

\* do_GET is running for connection c
InService(c) == pc[c] \in {"next", "write", "final"}

\* The locals of connection c's generator when its body is (re)entered
Locals(c) ==
    IF started[c]
    THEN [buf |-> buf[c], count |-> count[c], under_limit |-> under_limit[c]]
    ELSE [buf |-> << >>, count |-> 0, under_limit |-> TRUE]

\* The generator state connection c's generator body runs on
Generator(c) == IF started[c] THEN rng ELSE generator_start(rng, SEED)

\* HTTPServer.serve_forever handles one request at a time: do_GET starts for
\* c, sends the headers and creates the generator
do_GET(c) ==
    /\ pc[c] = "idle"
    /\ \A d \in Conns : ~InService(d)
    /\ pc' = [pc EXCEPT ![c] = "next"]
    /\ UNCHANGED << variant, LIMIT, SEED, rng, started, buf, count, under_limit,
                    chunk, body, sent, sizes, texts, broken, gdepth, gtape, gfar >>

\* do_GET starts for c while other requests are being served (handlers that
\* run side by side, each advancing its own generator)
do_GET_concurrently(c) ==
    /\ pc[c] = "idle"
    /\ pc' = [pc EXCEPT ![c] = "next"]
    /\ UNCHANGED << variant, LIMIT, SEED, rng, started, buf, count, under_limit,
                    chunk, body, sent, sizes, texts, broken, gdepth, gtape, gfar >>

\* The for loop asks the generator for its next chunk: the body runs to the
\* next yield, or the loop condition fails and the generator ends
next_chunk(c) ==
    /\ pc[c] = "next"
    /\ LET loc == Locals(c)
           g == Generator(c)
       IN  IF loop_condition(loc.under_limit, loc.buf)
           THEN \E r \in {cycle(loc, g, LIMIT)} :
                    /\ ~r.capped
                    /\ pc' = [pc EXCEPT ![c] = "write"]
                    /\ rng' = r.g
                    /\ buf' = [buf EXCEPT ![c] = r.buf]
                    /\ count' = [count EXCEPT ![c] = r.count]
                    /\ under_limit' = [under_limit EXCEPT ![c] = r.under_limit]
                    /\ chunk' = [chunk EXCEPT ![c] = r.to_send]
                    /\ sent' = [sent EXCEPT ![c] = Append(@, r.to_send)]
                    /\ sizes' = [sizes EXCEPT ![c] = Append(@, r.chunk_size)]
                    /\ texts' = [texts EXCEPT ![c] = @ \o r.texts]
           ELSE /\ pc' = [pc EXCEPT ![c] = "final"]
                /\ rng' = g
                /\ buf' = [buf EXCEPT ![c] = loc.buf]
                /\ count' = [count EXCEPT ![c] = loc.count]
                /\ under_limit' = [under_limit EXCEPT ![c] = loc.under_limit]
                /\ UNCHANGED << chunk, sent, sizes, texts >>
    /\ started' = [started EXCEPT ![c] = TRUE]
    /\ UNCHANGED << variant, LIMIT, SEED, body, broken, gdepth, gtape, gfar >>

\* The loop body: json_generator.py skips an empty chunk (`if not chunk:
\* continue`), ugly_json_server.py writes whatever it was given
write_chunk(c) ==
    /\ pc[c] = "write"
    /\ body' = [body EXCEPT ![c] =
                  IF variant = "jsongen" /\ chunk[c] = << >> THEN @
                  ELSE @ \o frame(chunk[c])]
    /\ pc' = [pc EXCEPT ![c] = "next"]
    /\ UNCHANGED << variant, LIMIT, SEED, rng, started, buf, count, under_limit,
                    chunk, sent, sizes, texts, broken, gdepth, gtape, gfar >>

\* Faulty variant of write_fails: the exception is swallowed inside the loop
write_fails_swallowed(c) ==
    /\ pc[c] \in {"write", "final"}
    /\ broken' = [broken EXCEPT ![c] = TRUE]
    /\ pc' = [pc EXCEPT ![c] = IF pc[c] = "write" THEN "next" ELSE "done"]
    /\ UNCHANGED << variant, LIMIT, SEED, rng, started, buf, count, under_limit,
                    chunk, body, sent, sizes, texts, gdepth, gtape, gfar >>

\* wfile.write raises (the client is gone): nothing in do_GET catches it, the
\* exception leaves do_GET and the server closes the connection
write_fails(c) ==
    /\ pc[c] \in {"write", "final"}
    /\ pc[c] = "write" /\ variant = "jsongen" => chunk[c] # << >>
    /\ broken' = [broken EXCEPT ![c] = TRUE]
    /\ pc' = [pc EXCEPT ![c] = "failed"]
    /\ UNCHANGED << variant, LIMIT, SEED, rng, started, buf, count, under_limit,
                    chunk, body, sent, sizes, texts, gdepth, gtape, gfar >>

\* Faulty variant of write_final: do_GET returns without the final write
write_final_missing(c) ==
    /\ pc[c] = "final"
    /\ pc' = [pc EXCEPT ![c] = "done"]
    /\ UNCHANGED << variant, LIMIT, SEED, rng, started, buf, count, under_limit,
                    chunk, body, sent, sizes, texts, broken, gdepth, gtape, gfar >>

\* The generator has ended: write the final HTTP chunk
write_final(c) ==
    /\ pc[c] = "final"
    /\ body' = [body EXCEPT ![c] = @ \o final_chunk]
    /\ pc' = [pc EXCEPT ![c] = "done"]
    /\ UNCHANGED << variant, LIMIT, SEED, rng, started, buf, count, under_limit,
                    chunk, sent, sizes, texts, broken, gdepth, gtape, gfar >>

-----------------------------------------------------------------------------
(* The server *)

\* The command line: --limit and --seed are optional ints
Limits == {None} \cup (-1 .. MaxLimit)

Seeds == 0 .. (NumSeeds - 1)

Init ==
    /\ variant \in {"ugly", "jsongen"}
    /\ IF variant = "ugly"
       THEN LIMIT \in Limits /\ SEED \in {None} \cup Seeds
       ELSE LIMIT = None /\ SEED = 0
    \* the generator as the interpreter seeded it at import; its state is
    \* overwritten before the first draw when a seed is given
    /\ rng \in IF SEED = None THEN {seed(e) : e \in Seeds} ELSE {seed(0)}
    /\ pc = [c \in Conns |-> "idle"]
    /\ started = [c \in Conns |-> FALSE]
    /\ buf = [c \in Conns |-> << >>]
    /\ count = [c \in Conns |-> 0]
    /\ under_limit = [c \in Conns |-> TRUE]
    /\ chunk = [c \in Conns |-> << >>]
    /\ body = [c \in Conns |-> << >>]
    /\ sent = [c \in Conns |-> << >>]
    /\ sizes = [c \in Conns |-> << >>]
    /\ texts = [c \in Conns |-> << >>]
    /\ broken = [c \in Conns |-> FALSE]
    /\ gdepth = 0
    /\ gtape = << >>
    /\ gfar = None

Next ==
    \E c \in Conns :
        \/ do_GET(c)
        \/ next_chunk(c)
        \/ write_chunk(c)
        \/ write_fails(c)
        \/ write_final(c)

Spec == Init /\ [][Next]_vars

NextConcurrent ==
    \E c \in Conns :
        \/ do_GET_concurrently(c)
        \/ next_chunk(c)
        \/ write_chunk(c)
        \/ write_fails(c)
        \/ write_final(c)

SpecConcurrent == Init /\ [][NextConcurrent]_vars

-----------------------------------------------------------------------------
(* The value generator on its own: make_random_value(gdepth) is called with *)
(* its first draws chosen freely, the later ones taken from the generator.  *)

\* The values a forced draw takes: TapeLevels points spread over [0, 1)
TapeValues == { (k * RngResolution) \div TapeLevels : k \in 0 .. (TapeLevels - 1) }

\* make_random_value(gdepth) with the draws of gtape
GenRun ==
    run_steps(make_random_value(fresh_run([x |-> 0, forced |-> gtape]), gdepth, 0),
              MaxSteps)

GenInit ==
    /\ variant \in {"ugly", "jsongen"}
    /\ LIMIT = None
    /\ SEED = None
    /\ rng = seed(0)
    /\ pc = [c \in Conns |-> "idle"]
    /\ started = [c \in Conns |-> FALSE]
    /\ buf = [c \in Conns |-> << >>]
    /\ count = [c \in Conns |-> 0]
    /\ under_limit = [c \in Conns |-> TRUE]
    /\ chunk = [c \in Conns |-> << >>]
    /\ body = [c \in Conns |-> << >>]
    /\ sent = [c \in Conns |-> << >>]
    /\ sizes = [c \in Conns |-> << >>]
    /\ texts = [c \in Conns |-> << >>]
    /\ broken = [c \in Conns |-> FALSE]
    /\ gdepth \in 9 .. MaxGenDepth
    /\ gtape = << >>
    /\ gfar = None

\* One more draw is fixed
force_draw(u) ==
    /\ gfar = None
    /\ Len(gtape) < MaxDraws
    /\ gtape' = Append(gtape, u)
    /\ UNCHANGED << variant, LIMIT, SEED, rng, pc, started, buf, count, under_limit,
                    chunk, body, sent, sizes, texts, broken, gdepth, gfar >>

\* make_random_value(gdepth) runs
call_make_random_value ==
    /\ gfar = None
    /\ GenRun.done
    /\ gfar' = GenRun.far
    /\ UNCHANGED << variant, LIMIT, SEED, rng, pc, started, buf, count, under_limit,
                    chunk, body, sent, sizes, texts, broken, gdepth, gtape >>

GenNext ==
    \/ \E u \in TapeValues : force_draw(u)
    \/ call_make_random_value

SpecGen == GenInit /\ [][GenNext]_vars

-----------------------------------------------------------------------------
(* Properties *)

IsPrefix(s, t) == Len(s) <= Len(t) /\ SubSeq(t, 1, Len(s)) = s

\* The frames of a sequence of chunks, in order
Frames(chunks) == Flatten([j \in 1 .. Len(chunks) |-> frame(chunks[j])])

\* All of a sequence but its last element
Front(s) == SubSeq(s, 1, Len(s) - 1)

\* C1: determinism.  Two runs of generate_chunks started from scratch with
\* the same seed and limit (one connection served after the other) yield the
\* same chunks in the same order: as far as both have got, the chunk
\* sequences agree, and two runs consumed to their end yielded the same
\* sequence and wrote the same body.
C1_Determinism ==
    SEED # None =>
        \A c, d \in Conns :
            /\ IsPrefix(sent[c], sent[d]) \/ IsPrefix(sent[d], sent[c])
            /\ pc[c] = "done" /\ pc[d] = "done" =>
                   sent[c] = sent[d] /\ body[c] = body[d]

C1_Witness ==
    /\ SEED # None
    /\ LIMIT = 3
    /\ pc[1] = "done" /\ pc[2] = "done"
    /\ Len(sent[1]) >= 3
    /\ sent[1] = sent[2]

\* C2: with limit n >= 1 the counter never exceeds n, every value counted is
\* a text appended, the bytes yielded so far followed by the buffer are the
\* texts appended so far in order, and when the generator has ended exactly
\* n values were generated and every byte of them was yielded.
C2_ExactlyNConserved ==
    (variant = "ugly" /\ LIMIT # None /\ LIMIT >= 1) =>
        \A c \in Conns :
            /\ count[c] <= LIMIT
            /\ count[c] = Len(texts[c])
            /\ Flatten(sent[c]) \o buf[c] = Flatten(texts[c])
            /\ pc[c] \in {"final", "done"} =>
                   /\ count[c] = LIMIT
                   /\ Flatten(sent[c]) = Flatten(texts[c])

C2_Witness ==
    \E c \in Conns :
        /\ LIMIT = 3
        /\ pc[c] = "done"
        /\ count[c] = 3
        /\ Len(sent[c]) >= 3
        /\ Len(sent[c][1]) < Len(texts[c][1])

\* C3: every chunk yielded, whatever the limit and the seed, has between 1
\* and 1024 bytes, no more than the chunk size drawn for its cycle, and the
\* size drawn is in 1 .. 1024.
C3_ChunkLength ==
    \A c \in Conns :
        \A j \in 1 .. Len(sent[c]) :
            /\ sizes[c][j] \in 1 .. 1024
            /\ Len(sent[c][j]) \in 1 .. sizes[c][j]

C3_Witness ==
    \E c \in Conns :
        /\ \E j \in 1 .. Len(sent[c]) : Len(sent[c][j]) = 1024
        /\ \E j \in 1 .. Len(sent[c]) : Len(sent[c][j]) = 1

\* Values a generator with locals under, cnt still has to generate: 0 once
\* under_limit is False
Remaining(under, cnt) == IF under THEN 1 + Max(LIMIT - cnt, 0) ELSE 0

\* C4: with a limit, a connection's generator yields finitely many chunks and
\* then ends: every pull that yields a chunk lowers the pair (values still
\* to generate, bytes buffered) in lexicographic order, a pull made with the
\* buffer empty and the limit reached ends the generator, and the generator
\* has ended only with the buffer empty and the limit reached.
C4_Termination ==
    [][LIMIT # None =>
         \A c \in Conns :
             /\ (pc[c] = "next" /\ pc'[c] = "write") =>
                    \/ Remaining(under_limit'[c], count'[c])
                           < Remaining(under_limit[c], count[c])
                    \/ /\ Remaining(under_limit'[c], count'[c])
                              = Remaining(under_limit[c], count[c])
                       /\ Len(buf'[c]) < Len(buf[c])
             /\ (pc[c] = "next" /\ pc'[c] # "next"
                    /\ buf[c] = << >> /\ ~under_limit[c]) => pc'[c] = "final"
             /\ pc'[c] \in {"final", "done"} =>
                    buf'[c] = << >> /\ ~under_limit'[c] /\ count'[c] >= LIMIT]_vars

C4_Witness ==
    \E c \in Conns :
        /\ LIMIT = 3
        /\ pc[c] = "final"
        /\ Len(sent[c]) >= 3
        /\ count[c] = 3

\* C5: with limit <= 0, generate_chunks generates no value, appends nothing
\* to the buffer and yields no chunk.
C5_NonPositiveLimit ==
    (variant = "ugly" /\ LIMIT # None /\ LIMIT <= 0) =>
        \A c \in Conns : count[c] = 0 /\ texts[c] = << >> /\ sent[c] = << >>

\* C6: a call of make_random_value at depth >= 9 recurses no more than one
\* nesting level further, whatever the draws: no call is made two levels
\* below it.
C6_DepthBound == gfar # None => gfar <= 1

\* C7: two connections served with the same explicit seed and limit receive
\* the chunk sequence of a connection served alone, however their chunk
\* pulls interleave: so the two sequences agree as far as both have got.
C7_Independence ==
    \A c, d \in Conns :
        (SEED # None /\ started[c] /\ started[d]) =>
            \A j \in 1 .. Min(Len(sent[c]), Len(sent[d])) : sent[c][j] = sent[d][j]

\* C8: the body is the frames of the chunks written, in yield order, none of
\* them of zero length; when do_GET has returned it is the frames of all the
\* chunks yielded and then the terminal marker, once, and nothing after it.
C8_Framing ==
    \A c \in Conns :
        /\ \A j \in 1 .. Len(sent[c]) : sent[c][j] # << >>
        /\ pc[c] = "done" => body[c] = Frames(sent[c]) \o final_chunk
        /\ pc[c] = "write" => body[c] = Frames(Front(sent[c]))
        /\ pc[c] \in {"idle", "next", "final"} => body[c] = Frames(sent[c])
        /\ pc[c] = "failed" => body[c] \in {Frames(sent[c]), Frames(Front(sent[c]))}

C8_Witness ==
    \E c \in Conns :
        /\ pc[c] = "done"
        /\ Len(sent[c]) >= 2
        /\ \E j \in 1 .. Len(sent[c]) : Len(sent[c][j]) >= 256

\* C9: once a write to a connection has failed, nothing more is generated,
\* pulled or written for that connection, and LIMIT and SEED never change.
C9_WriteFailureStops ==
    [][/\ LIMIT' = LIMIT
       /\ SEED' = SEED
       /\ \A c \in Conns :
              broken[c] =>
                  /\ broken'[c]
                  /\ pc'[c] = "failed"
                  /\ count'[c] = count[c]
                  /\ texts'[c] = texts[c]
                  /\ sent'[c] = sent[c]
                  /\ body'[c] = body[c]]_vars

\* a connection served to its end after an earlier connection's write failed
C9_Witness ==
    \E c, d \in Conns :
        /\ broken[c]
        /\ sent[c] # << >>
        /\ ~broken[d]
        /\ pc[d] = "done"
        /\ Len(sent[d]) > Len(sent[c])

\* C10: a chunk that is followed by another has exactly the size drawn for
\* its cycle, without a limit every chunk has; a chunk shorter than the size
\* drawn is the last one, yielded with the limit reached and leaving the
\* buffer empty.
C10_OnlyLastShort ==
    \A c \in Conns :
        \A j \in 1 .. Len(sent[c]) :
            /\ j < Len(sent[c]) => Len(sent[c][j]) = sizes[c][j]
            /\ LIMIT = None => Len(sent[c][j]) = sizes[c][j]
            /\ Len(sent[c][j]) < sizes[c][j] =>
                   /\ j = Len(sent[c])
                   /\ ~under_limit[c]
                   /\ count[c] >= LIMIT
                   /\ buf[c] = << >>

C10_Witness ==
    \E c \in Conns :
        /\ pc[c] = "done"
        /\ Len(sent[c]) >= 2
        /\ Len(sent[c][Len(sent[c])]) < sizes[c][Len(sent[c])]

====
